---- MODULE Spec2Model ----
(***************************************************************************)
(* The file-analysis dispatcher of al_core/dispatching: dispatcher.py      *)
(* (Dispatcher.dispatch_submission, finalize_submission, dispatch_file,    *)
(* build_schedule) and scheduler.py (Scheduler.build_schedule,             *)
(* expand_categories), for one submission sid.                             *)
(*                                                                         *)
(* The Dispatch State (al_core.dispatching.dispatch_hash.DispatchHash),    *)
(* the timeout watcher, the queue consumers and the service workers are    *)
(* not part of the source files modelled here; they are modelled from the  *)
(* specification (sections 3, 4.2, 5 and 6).                               *)
(*                                                                         *)
(* Time: the code only ever uses a dispatch timestamp in the expression    *)
(* time.time() - dispatch_time(sha, svc) < service.timeout, so the model   *)
(* keeps, for every dispatched (sha, svc), the time elapsed since the      *)
(* stamp was written (saturating at the service's timeout) and lets Tick   *)
(* advance every stored age by one unit.  A key that is absent stands for  *)
(* dispatch_time = 0, i.e. an elapsed time of the whole epoch.             *)
(***************************************************************************)
EXTENDS Integers, Sequences, FiniteSets, Bags, TLC

----------------------------------------------------------------------------
(* Bounds of the model                                                     *)

\* submission.params.max_extracted is drawn from 0..MaxExtracted
MaxExtracted == 1
\* finish records carry a score in 0..MaxScore
MaxScore == 1
\* at most this many copies of one FileTask wait on the dispatch-file queue
MaxFileQueue == 2
\* at most this many {sid} messages wait on the dispatch-submission queue
MaxSubmissionQueue == 1
\* at most this many ServiceTasks wait on one service queue for one file
MaxServiceQueue == 1
\* a submission is finalized at most this many times
MaxFinalize == 2

----------------------------------------------------------------------------
(* The world the submission lives in                                       *)

Sid == "S1"

\* sha256 of every file the datastore may hold
Files == {"A", "B", "C", "D"}

\* datastore.file: sha256 -> file_data.type ; a type is a string, kept as the
\* tuple of its characters so that re.match can be computed on it
FileType(sha) ==
    IF sha \in {"A", "C", "D"} THEN <<"z", "i", "p">> ELSE <<"t", "x", "t">>

\* shas for which datastore.file.get returns a record
FileStore == Files

\* config.core.dispatcher.stages
Stages == <<"extract", "scan">>

\* the service catalog (datastore.service, enabled services)
ServiceNames == {"ext", "av"}

Catalog ==
    [n \in ServiceNames |->
        IF n = "ext"
        THEN [name |-> "ext", category |-> "extraction", stage |-> "extract",
              accepts |-> <<"z">>, rejects |-> <<>>, timeout |-> 2]
        ELSE [name |-> "av", category |-> "antivirus", stage |-> "scan",
              accepts |-> <<>>, rejects |-> <<>>, timeout |-> 1]]

\* a fixed iteration order over service names (Python iterates the dicts and
\* sets of names in one order per process; the model fixes that order)
ServiceOrder == <<"ext", "av">>

\* result.response.extracted of the result record a service writes for a file
Extracts(sha, svc) ==
    IF sha = "A" /\ svc = "ext" THEN <<"B">> ELSE <<>>

\* config.submission.max_extraction_depth
max_extraction_depth == 2

Keys == Files \X ServiceNames

----------------------------------------------------------------------------
(* scheduler.py                                                            *)

system_category == "system"

\* the names of a set, in the fixed iteration order
SeqFromSet(S) == SelectSeq(ServiceOrder, LAMBDA n : n \in S)

Range(s) == {s[i] : i \in DOMAIN s}

\* re.match(pattern, file_type) for a literal pattern: anchored at the start
re_match(pattern, file_type) ==
    /\ Len(pattern) <= Len(file_type)
    /\ \A i \in 1..Len(pattern) : pattern[i] = file_type[i]

\* Scheduler.categories: category name -> the names of its services
categories(all_services) ==
    [c \in {all_services[n].category : n \in DOMAIN all_services} |->
        SeqFromSet({n \in DOMAIN all_services : all_services[n].category = c})]

\* the characters of a name: set.update(name) adds them one by one
Chars(name) ==
    CASE name = "extraction" -> {"e", "x", "t", "r", "a", "c", "i", "o", "n"}
      [] name = "antivirus" -> {"a", "n", "t", "i", "v", "r", "u", "s"}
      [] name = "system" -> {"s", "y", "t", "e", "m"}
      [] name = "ext" -> {"e", "x", "t"}
      [] name = "av" -> {"a", "v"}
      [] OTHER -> {name}

\* the while loop of expand_categories; fuel bounds the number of iterations
ExpandFuel == 8

\* done: the loop ended within the fuel; found: found_services; expanded:
\* the categories whose members were added to the list, in order
RECURSIVE expand_loop(_, _, _, _, _)
expand_loop(cats, services, found_services, seen_categories, fuel) ==
    IF services = <<>>
    THEN [done |-> TRUE, found |-> found_services, expanded |-> <<>>]
    ELSE IF fuel = 0
    THEN [done |-> FALSE, found |-> found_services, expanded |-> <<>>]
    ELSE LET name == services[Len(services)]
             rest == SubSeq(services, 1, Len(services) - 1)
         IN  IF name \in DOMAIN cats
             THEN IF name \notin seen_categories
                  THEN LET r == expand_loop(cats, rest \o cats[name], found_services,
                                            seen_categories \cup Chars(name), fuel - 1)
                       IN  [r EXCEPT !.expanded = <<name>> \o @]
                  ELSE expand_loop(cats, rest, found_services, seen_categories, fuel - 1)
             ELSE expand_loop(cats, rest, found_services \cup {name},
                              seen_categories, fuel - 1)

expand_categories(all_services, services) ==
    expand_loop(categories(all_services), services, {}, {}, ExpandFuel).found

stage_index(stage) == CHOOSE i \in DOMAIN Stages : Stages[i] = stage

\* Scheduler.build_schedule: one set of service names per configured stage
scheduler_build_schedule(all_services, selected_param, excluded_param, file_type) ==
    LET excluded == expand_categories(all_services, excluded_param)
        selected == IF selected_param = <<>> THEN DOMAIN all_services
                    ELSE expand_categories(all_services, selected_param)
        system_services == {n \in DOMAIN all_services :
                               all_services[n].category = system_category}
        services == (selected \ excluded) \cup system_services
        kept == {n \in services \cap DOMAIN all_services :
                    LET service == all_services[n]
                        accepted == service.accepts = <<>>
                                    \/ re_match(service.accepts, file_type)
                        rejected == service.rejects # <<>>
                                    /\ re_match(service.rejects, file_type)
                    IN  accepted /\ ~rejected}
    IN  [i \in DOMAIN Stages |->
            {n \in kept : stage_index(all_services[n].stage) = i}]

----------------------------------------------------------------------------
(* State                                                                   *)

VARIABLES
    params,             \* the submission of the task: its params
                        \* (ignore_filtering, max_extracted, services) and files
    active_tasks,       \* dispatch-active-tasks: the sids with a stored task
    watch,              \* timeout watcher: TRUE while a key for sid is armed
    schedules,          \* Dispatch State: sha -> cached schedule, <<>> if none
    dispatched,         \* Dispatch State: (sha, svc) -> age of the timestamp
    finished,           \* Dispatch State: (sha, svc) -> finish record
    files,              \* Dispatch State: admitted shas
    results,            \* datastore.result: (sha, svc) -> result record
    file_queue,         \* dispatch-file: bag of FileTasks
    submission_queue,   \* dispatch-submission: bag of "task" / "sid" messages
    service_queue,      \* service-queue-<svc>: bag of (sha, svc) ServiceTasks
    submission,         \* datastore.submission: the saved record of sid
    completed_queue,    \* number of submissions pushed to task.completed_queue
    filescore,          \* datastore.filescore: sha -> written entries
    files_complete,     \* sha -> increments of dispatch.files_complete
    worker,             \* per dispatcher worker: position and locals
    last                \* history: the last handler call

vars == <<params, active_tasks, watch, schedules, dispatched, finished, files,
          results, file_queue, submission_queue, service_queue, submission,
          completed_queue, filescore, files_complete, worker, last>>

\* submission.files: the root files, in order
SubmissionFiles == params.files

----------------------------------------------------------------------------
(* Dispatch State (DispatchHash), modelled from the specification          *)

timeout(service_name) == Catalog[service_name].timeout

\* time.time() - dispatch_table.dispatch_time(sha, svc), saturated at the
\* service's timeout; dispatch_time is 0 for a pair never dispatched
runtime(d, k) == IF k \in DOMAIN d THEN d[k] ELSE timeout(k[2])

\* dispatch(sha, svc): set the dispatch timestamp to now
dispatch(d, k) == (k :> 0) @@ d

\* add_file(sha, max_files): admit sha if under quota; true iff admitted or
\* already admitted
add_file(fs, sha, max_files) ==
    IF sha \in fs THEN [ok |-> TRUE, files |-> fs]
    ELSE IF Cardinality(fs) < max_files THEN [ok |-> TRUE, files |-> fs \cup {sha}]
    ELSE [ok |-> FALSE, files |-> fs]

\* all_finished(): every admitted (sha, svc) in every stage of the file's
\* cached schedule has a finish record
all_finished(fs, sched, fin) ==
    \A sha \in fs : \A i \in DOMAIN sched[sha] :
        \A svc \in Range(sched[sha][i]) : <<sha, svc>> \in DOMAIN fin

NoSchedules == [sha \in Files |-> <<>>]

\* the empty partial function
Empty == [k \in {} |-> 0]

----------------------------------------------------------------------------
(* Dispatcher.build_schedule                                               *)

\* returns the schedule the caller proceeds with and the schedule cache
\* after schedules.add (which sets the key only when it is absent)
build_schedule(cache, file_hash, file_type) ==
    LET cached_schedule == cache[file_hash]
    IN  IF cached_schedule # <<>>
        THEN [schedule |-> cached_schedule, cache |-> cache]
        ELSE LET obj_schedule == scheduler_build_schedule(Catalog, params.selected,
                                                         params.excluded, file_type)
                 names == [i \in DOMAIN obj_schedule |-> SeqFromSet(obj_schedule[i])]
             IN  [schedule |-> names, cache |-> [cache EXCEPT ![file_hash] = names]]

----------------------------------------------------------------------------
(* Dispatcher.dispatch_submission: the walk over the file tree             *)

\* max_score = None
None == -1

\* the later of the two in place of the larger
Max_is_latest(a, b) == b

Max(a, b) == IF a >= b THEN a ELSE b

\* a local variable: the value of the one element of S, computed once
Local(S) == CHOOSE x \in S : TRUE

MinOf(S) == CHOOSE x \in S : \A y \in S : x <= y

\* pending_files[sha] = file_task: a dict keeps the position of the first insertion
PendingAdd(pending, sha) == IF sha \in Range(pending) THEN pending ELSE Append(pending, sha)

\* for sub_file in result.response.extracted
RECURSIVE walk_extracted(_, _, _)
walk_extracted(ws, sha, extracted) ==
    IF extracted = <<>> THEN ws
    ELSE LET sub == Head(extracted)
             w1 == [ws EXCEPT !.file_parents[sub] = Append(@, sha)]
             w2 == IF sub \in w1.encountered THEN w1
                   ELSE LET w3 == [w1 EXCEPT !.encountered = @ \cup {sub}]
                        IN  IF sub \notin FileStore THEN w3
                            ELSE [w3 EXCEPT !.unchecked = Append(@, sub)]
         IN  walk_extracted(w2, sha, Tail(extracted))

\* walk_service without `if finished.is_error: continue`
walk_service_reads_errors(ws, sha, service_name) ==
    LET k == <<sha, service_name>>
    IN  IF runtime(dispatched, k) < timeout(service_name)
        THEN [ws EXCEPT !.pending = PendingAdd(@, sha)]
        ELSE IF k \notin DOMAIN finished
        THEN [ws EXCEPT !.pending = PendingAdd(@, sha)]
        ELSE IF k \notin DOMAIN results
        THEN ws
        ELSE LET w2 == walk_extracted(ws, sha, results[k].extracted)
             IN  [w2 EXCEPT !.max_score = IF @ = None THEN results[k].score
                                          ELSE Max(@, results[k].score),
                            !.result_classifications = @ + 1]

\* the body of `for service_name in stage`
walk_service(ws, sha, service_name) ==
    LET k == <<sha, service_name>>
    IN  IF runtime(dispatched, k) < timeout(service_name)
        THEN [ws EXCEPT !.pending = PendingAdd(@, sha)]
        ELSE IF k \notin DOMAIN finished
        THEN [ws EXCEPT !.pending = PendingAdd(@, sha)]
        ELSE IF finished[k].bucket = "error"
        THEN ws
        ELSE LET w1 == IF ~params.ignore_filtering /\ finished[k].drop
                       THEN [ws EXCEPT !.cleared = TRUE] ELSE ws
             IN  IF k \notin DOMAIN results
                 THEN w1
                 ELSE LET w2 == walk_extracted(w1, sha, results[k].extracted)
                      IN  [w2 EXCEPT !.max_score = IF @ = None THEN results[k].score
                                                   ELSE Max(@, results[k].score),
                                     !.result_classifications = @ + 1]

RECURSIVE walk_stage(_, _, _)
walk_stage(ws, sha, stage) ==
    IF stage = <<>> THEN ws
    ELSE Local({walk_stage(w1, sha, Tail(stage)) :
                   w1 \in {walk_service(ws, sha, Head(stage))}})

\* `while schedule`: schedule.clear() ends the loop after the current stage
RECURSIVE walk_schedule(_, _, _)
walk_schedule(ws, sha, schedule) ==
    IF schedule = <<>> \/ ws.cleared THEN ws
    ELSE Local({walk_schedule(w1, sha, Tail(schedule)) :
                   w1 \in {walk_stage(ws, sha, Head(schedule))}})

\* `while unchecked_files`: pop() takes the last element
RECURSIVE walk_files(_)
walk_files(ws) ==
    IF ws.unchecked = <<>> THEN ws
    ELSE LET sha == ws.unchecked[Len(ws.unchecked)]
             b == build_schedule(ws.schedules, sha, FileType(sha))
             w1 == [ws EXCEPT !.unchecked = SubSeq(@, 1, Len(@) - 1),
                              !.schedules = b.cache,
                              !.cleared = FALSE]
         IN  Local({walk_files(w2) : w2 \in {walk_schedule(w1, sha, b.schedule)}})

\* the state of the walk before the first file is popped
walk_init ==
    [unchecked |-> SelectSeq(SubmissionFiles, LAMBDA f : f \in FileStore),
     encountered |-> Range(SubmissionFiles),
     pending |-> <<>>,
     file_parents |-> [f \in Files |-> <<>>],
     max_score |-> None,
     result_classifications |-> 0,
     schedules |-> schedules,
     cleared |-> FALSE]

\* file_depth raises RecursionError when the parent map holds a cycle
RecursionError == -1

\* a chain of parents longer than the number of files repeats a file
RECURSIVE file_depth(_, _, _)
file_depth(file_parents, sha, fuel) ==
    IF file_parents[sha] = <<>> THEN 0
    ELSE IF fuel = 0 THEN RecursionError
    ELSE LET ds == {file_depth(file_parents, parent, fuel - 1) :
                        parent \in Range(file_parents[sha])}
         IN  IF RecursionError \in ds THEN RecursionError ELSE MinOf(ds) + 1

depth_of(ws, sha) == file_depth(ws.file_parents, sha, Cardinality(Files))

\* admit without the add_file filter: every pending file is kept
admit_ignores_quota(pending, fs, max_files) == [kept |-> pending, files |-> fs]

\* pending_files filtered by add_file, in dict order
RECURSIVE admit(_, _, _)
admit(pending, fs, max_files) ==
    IF pending = <<>> THEN [kept |-> <<>>, files |-> fs]
    ELSE LET a == add_file(fs, Head(pending), max_files)
             r == admit(Tail(pending), a.files, max_files)
         IN  [kept |-> IF a.ok THEN <<Head(pending)>> \o r.kept ELSE r.kept,
              files |-> r.files]

max_files == Len(SubmissionFiles) + params.max_extracted

----------------------------------------------------------------------------
(* History and common pieces                                               *)

MaxTimeout == Max(timeout("ext"), timeout("av"))

\* History. op: the handler (dispatch_submission, dispatch_file, a service
\* worker) that ran last.  sha, pushed, elapsed: the most
\* recent dispatch_file call that pushed ServiceTasks, the services it pushed
\* them for and the time since; renewed: some of them had been dispatched
\* before; again: dispatch_file has since run for that file without pushing.
\* The call is forgotten when a finish record is written.
NoCall ==
    [op |-> "none", sha |-> "", pushed |-> {}, elapsed |-> 0,
     renewed |-> FALSE, again |-> FALSE]

Ran(op) == [last EXCEPT !.op = op]

RanFile(sha, pushed, renewed) ==
    IF pushed # {}
    THEN [op |-> "dispatch_file", sha |-> sha, pushed |-> pushed, elapsed |-> 0,
          renewed |-> renewed, again |-> FALSE]
    ELSE IF sha = last.sha THEN [last EXCEPT !.op = "dispatch_file", !.again = TRUE]
    ELSE Ran("dispatch_file")

One(x) == SetToBag({x})

FileTask(sha, depth) == [sha |-> sha, depth |-> depth]

\* the submission record before finalization
Submitted ==
    [state |-> "submitted", error_count |-> 0, errors |-> {}, results |-> {},
     file_count |-> 0, max_score |-> 0]

Idle == [pc |-> "idle"]

Workers == {"w1", "w2"}

----------------------------------------------------------------------------
(* Dispatcher.finalize_submission                                          *)

\* the submission record finalize_submission saves, from the snapshot
\* all_results of the finish records
finalized_submission(all_results, max_score, file_count) ==
    LET errors == {k \in DOMAIN all_results : all_results[k].bucket = "error"}
        res == {k \in DOMAIN all_results :
                   all_results[k].bucket # "error" /\ all_results[k].bucket = "result"}
    IN  [state |-> "completed",
         error_count |-> Cardinality(errors),
         errors |-> errors,
         results |-> res,
         file_count |-> file_count,
         max_score |-> IF max_score = None \/ max_score = 0 THEN 0 ELSE max_score]

\* the whole of finalize_submission, run without interruption
finalize_submission(max_score, file_count) ==
    /\ completed_queue < MaxFinalize
    /\ submission' = finalized_submission(finished, max_score, file_count)
    /\ completed_queue' = completed_queue + 1
    /\ schedules' = NoSchedules
    /\ dispatched' = Empty
    /\ finished' = Empty
    /\ files' = {}
    /\ watch' = FALSE
    /\ active_tasks' = active_tasks \ {Sid}

----------------------------------------------------------------------------
(* Dispatcher.dispatch_submission                                          *)

\* the pending files without the depth filter
under_limit_keeps_all(ws) == ws.pending

\* pending files whose depth is under the limit, in dict order
under_limit(ws) ==
    SelectSeq(ws.pending, LAMBDA sha : depth_of(ws, sha) < max_extraction_depth)

\* file_depth raised for some pending file
depth_raises(ws) ==
    \E sha \in Range(ws.pending) : depth_of(ws, sha) = RecursionError

dispatch_submission(m) ==
    /\ BagIn(m, submission_queue)
    /\ m = "task" \/ Sid \in active_tasks
    /\ submission_queue' = submission_queue (-) One(m)
    /\ last' = Ran("dispatch_submission")
    /\ \E ws \in {walk_files(walk_init)} :
       \E adm \in {admit(under_limit(ws), files, max_files)} :
           IF depth_raises(ws)
           THEN /\ active_tasks' = active_tasks \cup {Sid}
                /\ watch' = TRUE
                /\ schedules' = ws.schedules
                /\ UNCHANGED <<dispatched, finished, files, file_queue,
                               submission, completed_queue>>
           ELSE IF adm.kept # <<>>
           THEN /\ \A i \in DOMAIN adm.kept :
                       CopiesIn(FileTask(adm.kept[i], depth_of(ws, adm.kept[i])),
                                file_queue) < MaxFileQueue
                /\ active_tasks' = active_tasks \cup {Sid}
                /\ watch' = TRUE
                /\ schedules' = ws.schedules
                /\ files' = adm.files
                /\ file_queue' = file_queue (+)
                       SetToBag({FileTask(adm.kept[i], depth_of(ws, adm.kept[i])) :
                                    i \in DOMAIN adm.kept})
                /\ UNCHANGED <<dispatched, finished, submission, completed_queue>>
           ELSE /\ finalize_submission(ws.max_score, Cardinality(ws.encountered))
                /\ UNCHANGED file_queue
    /\ UNCHANGED <<params, results, service_queue, filescore, files_complete, worker>>

----------------------------------------------------------------------------
(* Dispatcher.dispatch_file                                                *)

\* file_service with the drop of a finished service never clearing the schedule
file_service_keeps_schedule(w, file_hash, service_name, fin) ==
    LET k == <<file_hash, service_name>>
    IN  IF k \notin DOMAIN fin
        THEN [w EXCEPT !.outstanding = Append(@, service_name)]
        ELSE IF fin[k].bucket = "error"
        THEN [w EXCEPT !.errors = @ + 1]
        ELSE [w EXCEPT !.score = @ + fin[k].score]

\* file_service testing `if schedule` before schedule.clear(): a drop with
\* stages left overwrites the cached schedule with the stages started
file_service_rewrites_schedule(w, file_hash, service_name, fin) ==
    LET k == <<file_hash, service_name>>
    IN  IF k \notin DOMAIN fin
        THEN [w EXCEPT !.outstanding = Append(@, service_name)]
        ELSE IF fin[k].bucket = "error"
        THEN [w EXCEPT !.errors = @ + 1]
        ELSE LET w1 == [w EXCEPT !.score = @ + fin[k].score]
             IN  IF ~params.ignore_filtering /\ fin[k].drop
                 THEN IF w1.schedule # <<>>
                      THEN [w1 EXCEPT !.schedule = <<>>,
                                      !.cache[file_hash] = w1.started_stages]
                      ELSE w1
                 ELSE w1

\* the body of `for service_name in stage`; fin is the finish records read
file_service(w, file_hash, service_name, fin) ==
    LET k == <<file_hash, service_name>>
    IN  IF k \notin DOMAIN fin
        THEN [w EXCEPT !.outstanding = Append(@, service_name)]
        ELSE IF fin[k].bucket = "error"
        THEN [w EXCEPT !.errors = @ + 1]
        ELSE LET w1 == [w EXCEPT !.score = @ + fin[k].score]
             IN  IF ~params.ignore_filtering /\ fin[k].drop
                 THEN LET w2 == [w1 EXCEPT !.schedule = <<>>]
                      IN  IF w2.schedule # <<>>
                          THEN [w2 EXCEPT !.cache[file_hash] = w2.started_stages]
                          ELSE w2
                 ELSE w1

RECURSIVE file_stage(_, _, _, _)
file_stage(w, file_hash, stage, fin) ==
    IF stage = <<>> THEN w
    ELSE Local({file_stage(w1, file_hash, Tail(stage), fin) :
                   w1 \in {file_service(w, file_hash, Head(stage), fin)}})

\* file_walk as `while schedule`: it goes on past a stage with outstanding services
RECURSIVE file_walk_all_stages(_, _, _)
file_walk_all_stages(w, file_hash, fin) ==
    IF w.schedule = <<>> THEN w
    ELSE LET stage == Head(w.schedule)
             w1 == [w EXCEPT !.schedule = Tail(@),
                             !.started_stages = Append(@, stage)]
         IN  Local({file_walk_all_stages(w2, file_hash, fin) :
                       w2 \in {file_stage(w1, file_hash, stage, fin)}})

\* `while schedule and not outstanding`
RECURSIVE file_walk(_, _, _)
file_walk(w, file_hash, fin) ==
    IF w.schedule = <<>> \/ w.outstanding # <<>> THEN w
    ELSE LET stage == Head(w.schedule)
             w1 == [w EXCEPT !.schedule = Tail(@),
                             !.started_stages = Append(@, stage)]
         IN  Local({file_walk(w2, file_hash, fin) :
                       w2 \in {file_stage(w1, file_hash, stage, fin)}})

\* the locals of dispatch_file after build_schedule
file_init(b) ==
    [schedule |-> b.schedule, started_stages |-> <<>>, outstanding |-> <<>>,
     score |-> 0, errors |-> 0, cache |-> b.cache]

\* in_flight that never holds: every outstanding service is pushed again
in_flight_never(d, k) == FALSE

\* in_flight with `<=` for `<`
in_flight_inclusive(d, k) == runtime(d, k) <= timeout(k[2])

\* `if queued_time < service.timeout: continue`
in_flight(d, k) == runtime(d, k) < timeout(k[2])

\* `for service_name, service in outstanding.items()`, run without
\* interruption: the dispatch timestamps and the services pushed
RECURSIVE dispatch_outstanding(_, _, _)
dispatch_outstanding(file_hash, outstanding, acc) ==
    IF outstanding = <<>> THEN acc
    ELSE LET k == <<file_hash, Head(outstanding)>>
         IN  IF in_flight(acc.dispatched, k)
             THEN dispatch_outstanding(file_hash, Tail(outstanding), acc)
             ELSE dispatch_outstanding(file_hash, Tail(outstanding),
                      [dispatched |-> dispatch(acc.dispatched, k),
                       pushed |-> acc.pushed \cup {Head(outstanding)}])

\* at most this many increments of dispatch.files_complete are counted per file
MaxComplete == 2

\* the return for an untracked submission moved below the touch of the watch
untracked_after_touch(task) ==
    /\ last' = RanFile(task.sha, {}, FALSE)
    /\ watch' = TRUE
    /\ UNCHANGED <<schedules, dispatched, service_queue, filescore,
                   files_complete, submission_queue>>

\* `if active_task is None: return`
untracked(task) ==
    /\ last' = RanFile(task.sha, {}, FALSE)
    /\ UNCHANGED <<watch, schedules, dispatched, service_queue, filescore,
                   files_complete, submission_queue>>

dispatch_file(task) ==
    /\ BagIn(task, file_queue)
    /\ file_queue' = file_queue (-) One(task)
    /\ IF Sid \notin active_tasks
       THEN untracked(task)
       ELSE LET file_hash == task.sha
            IN  \E b \in {build_schedule(schedules, file_hash, FileType(file_hash))} :
                \E w \in {file_walk(file_init(b), file_hash, finished)} :
                /\ watch' = TRUE
                /\ schedules' = w.cache
                /\ IF w.outstanding # <<>>
                   THEN \E r \in {dispatch_outstanding(file_hash, w.outstanding,
                                    [dispatched |-> dispatched, pushed |-> {}])} :
                            /\ \A svc \in r.pushed :
                                   CopiesIn(<<file_hash, svc>>, service_queue) < MaxServiceQueue
                            /\ dispatched' = r.dispatched
                            /\ service_queue' = service_queue (+)
                                   SetToBag({<<file_hash, svc>> : svc \in r.pushed})
                            /\ last' = RanFile(file_hash, r.pushed,
                                   \E svc \in r.pushed : <<file_hash, svc>> \in DOMAIN dispatched)
                            /\ UNCHANGED <<filescore, files_complete, submission_queue>>
                   ELSE /\ files_complete[file_hash] < MaxComplete
                        /\ filescore' = [filescore EXCEPT ![file_hash] =
                               [score |-> w.score, errors |-> w.errors]]
                        /\ files_complete' = [files_complete EXCEPT ![file_hash] = @ + 1]
                        /\ IF all_finished(files, w.cache, finished)
                           THEN /\ CopiesIn("sid", submission_queue) < MaxSubmissionQueue
                                /\ submission_queue' = submission_queue (+) One("sid")
                           ELSE UNCHANGED submission_queue
                        /\ last' = RanFile(file_hash, {}, FALSE)
                        /\ UNCHANGED <<dispatched, service_queue>>
    /\ UNCHANGED <<params, active_tasks, finished, files, results, submission,
                   completed_queue, worker>>

----------------------------------------------------------------------------
(* The environment: service workers, the clock, the watchdog, the consumer *)
(* of the submission queue                                                 *)

Buckets == {"result", "error"}

FinishRecords ==
    {[bucket |-> "error", score |-> 0, drop |-> FALSE]} \cup
    [bucket : {"result"}, score : 0..MaxScore, drop : BOOLEAN]

\* the finish records of services that all report the highest score
TopRecords == {r \in FinishRecords : r.bucket = "result" => r.score = MaxScore}

\* a service worker takes a ServiceTask, saves its result (listing the files
\* it extracted) and calls finish(sha, svc, record); a finish record already
\* there is kept
finish(k, record, extracted) ==
    /\ BagIn(k, service_queue)
    /\ service_queue' = service_queue (-) One(k)
    /\ IF k \in DOMAIN finished
       THEN UNCHANGED <<finished, results>>
       ELSE /\ finished' = (k :> record) @@ finished
            /\ IF record.bucket = "result"
               THEN results' = (k :> [score |-> record.score,
                                      extracted |-> extracted]) @@ results
               ELSE UNCHANGED results
    /\ last' = [NoCall EXCEPT !.op = "finish"]
    /\ UNCHANGED <<params, active_tasks, watch, schedules, dispatched, files,
                   file_queue, submission_queue, submission, completed_queue,
                   filescore, files_complete, worker>>

\* a service worker takes a ServiceTask and never reports on it
stall(k) ==
    /\ BagIn(k, service_queue)
    /\ service_queue' = service_queue (-) One(k)
    /\ last' = Ran("other")
    /\ UNCHANGED <<params, active_tasks, watch, schedules, dispatched, finished, files,
                   results, file_queue, submission_queue, submission, completed_queue,
                   filescore, files_complete, worker>>

\* one unit of time passes
Tick ==
    /\ \E k \in DOMAIN dispatched : dispatched[k] < timeout(k[2])
    /\ dispatched' = [k \in DOMAIN dispatched |->
                         IF dispatched[k] < timeout(k[2]) THEN dispatched[k] + 1
                         ELSE dispatched[k]]
    /\ last' = [last EXCEPT !.elapsed = IF last.sha # "" /\ @ < MaxTimeout
                                        THEN @ + 1 ELSE @]
    /\ UNCHANGED <<params, active_tasks, watch, schedules, finished, files, results,
                   file_queue, submission_queue, service_queue, submission,
                   completed_queue, filescore, files_complete, worker>>

\* the watched key expires: {sid} is pushed to the submission queue
watchdog_expire ==
    /\ watch
    /\ CopiesIn("sid", submission_queue) < MaxSubmissionQueue
    /\ watch' = FALSE
    /\ submission_queue' = submission_queue (+) One("sid")
    /\ UNCHANGED <<params, active_tasks, schedules, dispatched, finished, files,
                   results, file_queue, service_queue, submission, completed_queue,
                   filescore, files_complete, worker, last>>

\* a {sid} message for a submission with no stored task cannot be turned into
\* a SubmissionTask: the consumer drops it
drop_nudge ==
    /\ BagIn("sid", submission_queue)
    /\ Sid \notin active_tasks
    /\ submission_queue' = submission_queue (-) One("sid")
    /\ UNCHANGED <<params, active_tasks, watch, schedules, dispatched, finished,
                   files, results, file_queue, service_queue, submission,
                   completed_queue, filescore, files_complete, worker, last>>

----------------------------------------------------------------------------
(* Handlers run one at a time                                              *)

\* submissions with the extraction budget drawn from `budgets` and the root
\* files from `roots`
Submissions(budgets, roots) ==
    [ignore_filtering : BOOLEAN, max_extracted : budgets,
     selected : {<<>>}, excluded : {<<>>}, files : roots]

\* submissions of the one root file A
Params(budgets) == Submissions(budgets, {<<"A">>})

FileTasks == [sha : Files, depth : 0..Cardinality(Files)]

InitCommon ==
    /\ active_tasks = {}
    /\ watch = FALSE
    /\ schedules = NoSchedules
    /\ dispatched = Empty
    /\ finished = Empty
    /\ files = {}
    /\ results = Empty
    /\ file_queue = EmptyBag
    /\ service_queue = EmptyBag
    /\ submission = Submitted
    /\ completed_queue = 0
    /\ filescore = [f \in Files |-> [score |-> None, errors |-> 0]]
    /\ files_complete = [f \in Files |-> 0]
    /\ worker = [w \in Workers |-> Idle]
    /\ last = NoCall

\* a submission whose extracted files are all over the extraction budget
Init ==
    /\ InitCommon
    /\ params \in Params({0})
    /\ submission_queue = One("task")

Next ==
    \/ \E m \in {"task", "sid"} : dispatch_submission(m)
    \/ \E task \in FileTasks : dispatch_file(task)
    \/ \E k \in Keys : \E record \in TopRecords :
           finish(k, record, Extracts(k[1], k[2]))
    \/ \E k \in Keys : stall(k)
    \/ Tick
    \/ watchdog_expire

Spec == Init /\ [][Next]_vars

----------------------------------------------------------------------------
(* Extraction: the budget admits the extracted file or not; services       *)
(* report results that neither fail nor drop                               *)

PlainRecords == {r \in TopRecords : r.bucket = "result" /\ ~r.drop}

InitQuota ==
    /\ InitCommon
    /\ params \in {p \in Params(0..MaxExtracted) : ~p.ignore_filtering}
    /\ submission_queue = One("task")

NextQuota ==
    \/ \E m \in {"task", "sid"} : dispatch_submission(m)
    \/ \E task \in FileTasks : dispatch_file(task)
    \/ \E k \in Keys : \E record \in PlainRecords :
           finish(k, record, Extracts(k[1], k[2]))
    \/ Tick
    \/ watchdog_expire

SpecQuota == InitQuota /\ [][NextQuota]_vars

----------------------------------------------------------------------------
(* The result store: services report every score, fail or drop; the store  *)
(* may hold a result saved for an earlier submission under the key of a    *)
(* service that fails this time, and a result record may expire            *)

\* the result store when the submission arrives
CachedResults ==
    {Empty, <<"A", "ext">> :> [score |-> MaxScore, extracted |-> Extracts("A", "ext")]}

\* a result record named by a finish record is gone from the store
lose_result(k) ==
    /\ k \in DOMAIN results
    /\ k \in DOMAIN finished
    /\ results' = [j \in DOMAIN results \ {k} |-> results[j]]
    /\ UNCHANGED <<params, active_tasks, watch, schedules, dispatched, finished, files,
                   file_queue, submission_queue, service_queue, submission,
                   completed_queue, filescore, files_complete, worker, last>>

InitResults ==
    /\ active_tasks = {}
    /\ watch = FALSE
    /\ schedules = NoSchedules
    /\ dispatched = Empty
    /\ finished = Empty
    /\ files = {}
    /\ results \in CachedResults
    /\ file_queue = EmptyBag
    /\ service_queue = EmptyBag
    /\ submission = Submitted
    /\ completed_queue = 0
    /\ filescore = [f \in Files |-> [score |-> None, errors |-> 0]]
    /\ files_complete = [f \in Files |-> 0]
    /\ worker = [w \in Workers |-> Idle]
    /\ last = NoCall
    /\ params \in Params({0})
    /\ submission_queue = One("task")

NextResults ==
    \/ \E m \in {"task", "sid"} : dispatch_submission(m)
    \/ \E task \in FileTasks : dispatch_file(task)
    \/ \E k \in Keys : \E record \in FinishRecords :
           finish(k, record, Extracts(k[1], k[2]))
    \/ \E k \in Keys : lose_result(k)
    \/ Tick
    \/ watchdog_expire

SpecResults == InitResults /\ [][NextResults]_vars

----------------------------------------------------------------------------
(* Extraction trees: archives inside archives, analysed by the extracting  *)
(* service alone; a file reached along two paths, an archive that holds    *)
(* its parent; the extraction budget admits every file.  SpecTree submits  *)
(* one root file, SpecRoots two, the second also held by the first         *)

\* the lists of extracted files a service may report for a file
TreeExtracts(sha, svc) ==
    IF svc # "ext" THEN {<<>>}
    ELSE IF sha = "A" THEN {<<"C">>, <<"C", "D">>}
    ELSE IF sha = "C" THEN {<<"D">>, <<"A">>}
    ELSE {<<>>}

\* submissions of the given root files that select the extracting service
TreeParams(roots) ==
    [ignore_filtering : {FALSE}, max_extracted : {Cardinality(Files) - 1},
     selected : {<<"ext">>}, excluded : {<<>>}, files : {roots}]

InitTree ==
    /\ InitCommon
    /\ params \in TreeParams(<<"A">>)
    /\ submission_queue = One("task")

InitRoots ==
    /\ InitCommon
    /\ params \in TreeParams(<<"A", "C">>)
    /\ submission_queue = One("task")

NextTree ==
    \/ \E m \in {"task", "sid"} : dispatch_submission(m)
    \/ \E task \in FileTasks : dispatch_file(task)
    \/ \E k \in Keys : \E record \in PlainRecords :
       \E extracted \in TreeExtracts(k[1], k[2]) : finish(k, record, extracted)
    \/ Tick
    \/ watchdog_expire

SpecTree == InitTree /\ [][NextTree]_vars

SpecRoots == InitRoots /\ [][NextTree]_vars

----------------------------------------------------------------------------
(* Fair scheduling: the dispatcher workers serve their queues, every       *)
(* ServiceTask taken yields a finish record, time passes and the watcher   *)
(* fires.  An extracting service may also list the file it was given (an   *)
(* archive that unpacks to itself).                                        *)

ExtractsOrSelf(sha, svc) ==
    IF Extracts(sha, svc) = <<>> THEN {<<>>} ELSE {Extracts(sha, svc), <<sha>>}

NextLive ==
    \/ \E m \in {"task", "sid"} : dispatch_submission(m)
    \/ \E task \in FileTasks : dispatch_file(task)
    \/ \E k \in Keys : \E record \in TopRecords :
       \E extracted \in ExtractsOrSelf(k[1], k[2]) : finish(k, record, extracted)
    \/ Tick
    \/ watchdog_expire

Fairness ==
    /\ WF_vars(\E m \in {"task", "sid"} : dispatch_submission(m))
    /\ WF_vars(\E task \in FileTasks : dispatch_file(task))
    /\ WF_vars(\E k \in Keys : \E record \in TopRecords :
                   \E extracted \in ExtractsOrSelf(k[1], k[2]) :
                       finish(k, record, extracted))
    /\ WF_vars(Tick)
    /\ WF_vars(watchdog_expire)

SpecLive == Init /\ [][NextLive]_vars /\ Fairness

----------------------------------------------------------------------------
(* Two dispatcher workers run dispatch_file concurrently, one access to    *)
(* the shared store after the other; dispatch_submission (with the         *)
(* finalizer) runs on a third worker between any two of their steps        *)

\* file_hash = task.file_info.sha256; active_task = self.active_tasks.get(task.sid);
\* an untracked submission ends the call
file_begin(w, task) ==
    /\ worker[w] = Idle
    /\ BagIn(task, file_queue)
    /\ file_queue' = file_queue (-) One(task)
    /\ worker' = [worker EXCEPT ![w] =
           IF Sid \notin active_tasks THEN Idle
           ELSE [pc |-> "schedule", file_hash |-> task.sha]]
    /\ last' = Ran("dispatch_file")
    /\ UNCHANGED <<params, active_tasks, watch, schedules, dispatched, finished, files,
                   results, submission_queue, service_queue, submission,
                   completed_queue, filescore, files_complete>>

\* the watcher is touched, the schedule built and cached, the stages walked
file_schedule(w) ==
    /\ worker[w].pc = "schedule"
    /\ watch' = TRUE
    /\ LET file_hash == worker[w].file_hash
       IN  \E b \in {build_schedule(schedules, file_hash, FileType(file_hash))} :
           \E r \in {file_walk(file_init(b), file_hash, finished)} :
               /\ schedules' = r.cache
               /\ worker' = [worker EXCEPT ![w] =
                      IF r.outstanding # <<>>
                      THEN [pc |-> "check", file_hash |-> file_hash,
                            outstanding |-> r.outstanding]
                      ELSE [pc |-> "complete", file_hash |-> file_hash,
                            score |-> r.score, errors |-> r.errors, cache |-> r.cache]]
    /\ UNCHANGED <<params, active_tasks, dispatched, finished, files, results,
                   file_queue, submission_queue, service_queue, submission,
                   completed_queue, filescore, files_complete, last>>

\* after one outstanding service: the next one, or the end of the call
file_next(w) ==
    IF Tail(worker[w].outstanding) = <<>> THEN Idle
    ELSE [pc |-> "check", file_hash |-> worker[w].file_hash,
          outstanding |-> Tail(worker[w].outstanding)]

\* queued_time = time.time() - dispatch_time(file_hash, service_name) is read
\* and compared
file_check(w) ==
    /\ worker[w].pc = "check"
    /\ worker' = [worker EXCEPT ![w] =
           IF in_flight(dispatched, <<worker[w].file_hash, Head(worker[w].outstanding)>>)
           THEN file_next(w)
           ELSE [@ EXCEPT !.pc = "push"]]
    /\ UNCHANGED <<params, active_tasks, watch, schedules, dispatched, finished, files,
                   results, file_queue, submission_queue, service_queue, submission,
                   completed_queue, filescore, files_complete, last>>

\* queue.push(service_task)
file_push(w) ==
    /\ worker[w].pc = "push"
    /\ LET k == <<worker[w].file_hash, Head(worker[w].outstanding)>>
       IN  /\ CopiesIn(k, service_queue) < MaxServiceQueue
           /\ service_queue' = service_queue (+) One(k)
           /\ last' = [op |-> "dispatch_file", sha |-> k[1], pushed |-> {k[2]},
                       elapsed |-> 0, renewed |-> k \in DOMAIN dispatched,
                       again |-> FALSE]
    /\ worker' = [worker EXCEPT ![w].pc = "stamp"]
    /\ UNCHANGED <<params, active_tasks, watch, schedules, dispatched, finished, files,
                   results, file_queue, submission_queue, submission,
                   completed_queue, filescore, files_complete>>

\* dispatch_table.dispatch(file_hash, service_name)
file_stamp(w) ==
    /\ worker[w].pc = "stamp"
    /\ dispatched' = dispatch(dispatched,
                              <<worker[w].file_hash, Head(worker[w].outstanding)>>)
    /\ worker' = [worker EXCEPT ![w] = file_next(w)]
    /\ UNCHANGED <<params, active_tasks, watch, schedules, finished, files, results,
                   file_queue, submission_queue, service_queue, submission,
                   completed_queue, filescore, files_complete, last>>

\* no outstanding service: the FileScore entry, the counter, all_finished()
file_complete(w) ==
    /\ worker[w].pc = "complete"
    /\ LET file_hash == worker[w].file_hash
       IN  /\ files_complete[file_hash] < MaxComplete
           /\ filescore' = [filescore EXCEPT ![file_hash] =
                  [score |-> worker[w].score, errors |-> worker[w].errors]]
           /\ files_complete' = [files_complete EXCEPT ![file_hash] = @ + 1]
    /\ IF all_finished(files, schedules, finished)
       THEN /\ CopiesIn("sid", submission_queue) < MaxSubmissionQueue
            /\ submission_queue' = submission_queue (+) One("sid")
       ELSE UNCHANGED submission_queue
    /\ worker' = [worker EXCEPT ![w] = Idle]
    /\ UNCHANGED <<params, active_tasks, watch, schedules, dispatched, finished, files,
                   results, file_queue, service_queue, submission, completed_queue,
                   last>>

InitConc ==
    /\ InitCommon
    /\ params \in {p \in Params({0}) : ~p.ignore_filtering}
    /\ submission_queue = One("task")

NextConc ==
    \/ \E m \in {"task", "sid"} : dispatch_submission(m)
    \/ \E w \in Workers : \E task \in FileTasks : file_begin(w, task)
    \/ \E w \in Workers : file_schedule(w)
    \/ \E w \in Workers : file_check(w)
    \/ \E w \in Workers : file_push(w)
    \/ \E w \in Workers : file_stamp(w)
    \/ \E w \in Workers : file_complete(w)
    \/ \E k \in Keys : \E record \in PlainRecords :
           finish(k, record, Extracts(k[1], k[2]))
    \/ \E k \in Keys : stall(k)
    \/ Tick
    \/ watchdog_expire
    \/ drop_nudge

SpecConc == InitConc /\ [][NextConc]_vars

----------------------------------------------------------------------------
(* Two dispatcher workers run dispatch_submission concurrently, each for   *)
(* a message of the submission queue: the task is stored and the watch     *)
(* touched, then the file tree is walked and the pending files pushed,     *)
(* then, with nothing pending, the finalizer runs.  dispatch_file runs on  *)
(* a third worker between any two of their steps.                          *)

\* the message is taken; active_tasks.add unless the sid exists; touch
submission_begin(w, m) ==
    /\ worker[w] = Idle
    /\ BagIn(m, submission_queue)
    /\ m = "task" \/ Sid \in active_tasks
    /\ submission_queue' = submission_queue (-) One(m)
    /\ active_tasks' = active_tasks \cup {Sid}
    /\ watch' = TRUE
    /\ worker' = [worker EXCEPT ![w] = [pc |-> "walk"]]
    /\ last' = Ran("dispatch_submission")
    /\ UNCHANGED <<params, schedules, dispatched, finished, files, results, file_queue,
                   service_queue, submission, completed_queue, filescore,
                   files_complete>>

\* the walk, the depths, add_file; the FileTasks of the pending files are
\* pushed, or the call goes on to finalize_submission
submission_walk(w) ==
    /\ worker[w].pc = "walk"
    /\ \E ws \in {walk_files(walk_init)} :
       \E adm \in {admit(under_limit(ws), files, max_files)} :
           IF depth_raises(ws)
           THEN /\ schedules' = ws.schedules
                /\ worker' = [worker EXCEPT ![w] = Idle]
                /\ UNCHANGED <<files, file_queue>>
           ELSE IF adm.kept # <<>>
           THEN /\ \A i \in DOMAIN adm.kept :
                       CopiesIn(FileTask(adm.kept[i], depth_of(ws, adm.kept[i])),
                                file_queue) < MaxFileQueue
                /\ schedules' = ws.schedules
                /\ files' = adm.files
                /\ file_queue' = file_queue (+)
                       SetToBag({FileTask(adm.kept[i], depth_of(ws, adm.kept[i])) :
                                    i \in DOMAIN adm.kept})
                /\ worker' = [worker EXCEPT ![w] = Idle]
           ELSE /\ schedules' = ws.schedules
                /\ worker' = [worker EXCEPT ![w] =
                       [pc |-> "finalize", max_score |-> ws.max_score,
                        file_count |-> Cardinality(ws.encountered)]]
                /\ UNCHANGED <<files, file_queue>>
    /\ UNCHANGED <<params, active_tasks, watch, dispatched, finished, results,
                   submission_queue, service_queue, submission, completed_queue,
                   filescore, files_complete, last>>

\* finalize_submission with the max_score and file_count of the walk
submission_finalize(w) ==
    /\ worker[w].pc = "finalize"
    /\ finalize_submission(worker[w].max_score, worker[w].file_count)
    /\ worker' = [worker EXCEPT ![w] = Idle]
    /\ UNCHANGED <<params, results, file_queue, submission_queue, service_queue,
                   filescore, files_complete, last>>

InitFinalize ==
    /\ InitCommon
    /\ params \in {p \in Params({0}) : ~p.ignore_filtering}
    /\ submission_queue = One("task")

NextFinalize ==
    \/ \E w \in Workers : \E m \in {"task", "sid"} : submission_begin(w, m)
    \/ \E w \in Workers : submission_walk(w)
    \/ \E w \in Workers : submission_finalize(w)
    \/ \E task \in FileTasks : dispatch_file(task)
    \/ \E k \in Keys : \E record \in PlainRecords :
           finish(k, record, Extracts(k[1], k[2]))
    \/ Tick
    \/ watchdog_expire

SpecFinalize == InitFinalize /\ [][NextFinalize]_vars

----------------------------------------------------------------------------
(* Two dispatcher workers run Dispatcher.build_schedule concurrently, one  *)
(* access to the Dispatch State after the other.  Each worker process      *)
(* holds its own copy of the service catalog (Scheduler.services is a      *)
(* CachedObject, refreshed per process), so a service enabled or disabled  *)
(* in between is in one worker's catalog and not in the other's.           *)

\* the catalogs a worker may hold: the enabled services at its last refresh
CatalogViews ==
    {[n \in S |-> Catalog[n]] : S \in SUBSET ServiceNames \ {{}}}

\* [list(stage.keys()) for stage in obj_schedule] for the catalog all_services
schedule_names(all_services, file_type) ==
    LET obj_schedule == scheduler_build_schedule(all_services, params.selected,
                                                 params.excluded, file_type)
    IN  [i \in DOMAIN obj_schedule |-> SeqFromSet(obj_schedule[i])]

\* cached_schedule = dispatch_hash.schedules.get(file_hash)
schedule_get(w, file_hash, all_services) ==
    /\ worker[w] = Idle
    /\ worker' = [worker EXCEPT ![w] =
           IF schedules[file_hash] # <<>>
           THEN [pc |-> "returned", file_hash |-> file_hash,
                 cached_schedule |-> schedules[file_hash]]
           ELSE [pc |-> "build", file_hash |-> file_hash, services |-> all_services]]
    /\ UNCHANGED <<params, active_tasks, watch, schedules, dispatched, finished, files,
                   results, file_queue, submission_queue, service_queue, submission,
                   completed_queue, filescore, files_complete, last>>

\* the schedule is built from the worker's catalog and written with
\* schedules.add, which sets the key only when it is absent; the locally
\* built schedule is returned
schedule_add(w) ==
    /\ worker[w].pc = "build"
    /\ \E built \in {schedule_names(worker[w].services, FileType(worker[w].file_hash))} :
           /\ schedules' = IF schedules[worker[w].file_hash] = <<>>
                           THEN [schedules EXCEPT ![worker[w].file_hash] = built]
                           ELSE schedules
           /\ worker' = [worker EXCEPT ![w] =
                  [pc |-> "returned", file_hash |-> worker[w].file_hash,
                   cached_schedule |-> built]]
    /\ UNCHANGED <<params, active_tasks, watch, dispatched, finished, files,
                   results, file_queue, submission_queue, service_queue, submission,
                   completed_queue, filescore, files_complete, last>>

\* the caller has used the schedule; the worker takes its next message
schedule_done(w) ==
    /\ worker[w].pc = "returned"
    /\ worker' = [worker EXCEPT ![w] = Idle]
    /\ UNCHANGED <<params, active_tasks, watch, schedules, dispatched, finished, files,
                   results, file_queue, submission_queue, service_queue, submission,
                   completed_queue, filescore, files_complete, last>>

InitSchedule ==
    /\ InitCommon
    /\ params \in Params({0})
    /\ submission_queue = One("task")

NextSchedule ==
    \/ \E w \in Workers : \E file_hash \in Files : \E all_services \in CatalogViews :
           schedule_get(w, file_hash, all_services)
    \/ \E w \in Workers : schedule_add(w)
    \/ \E w \in Workers : schedule_done(w)

SpecSchedule == InitSchedule /\ [][NextSchedule]_vars

----------------------------------------------------------------------------
(* The Scheduler on its own: build_schedule and expand_categories called   *)
(* with catalogs, lists and file types of every shape                      *)

\* names a submission lists under services.selected / services.excluded
ListedNames == {"ext", "av", "extraction", "antivirus", "system"}

MaxListed == 2

NameLists == UNION {[1..n -> ListedNames] : n \in 0..MaxListed}

\* the service records a catalog may hold under a name; the category "av"
\* is a category named like a service
ServiceRecords(n) ==
    IF n = "ext"
    THEN [category : {"extraction", "system", "av"}, stage : {"extract"},
          accepts : {<<"z">>, <<>>}, rejects : {<<>>}, timeout : {2}]
    ELSE [category : {"antivirus", "system", "av"}, stage : Range(Stages),
          accepts : {<<>>}, rejects : {<<>>, <<"t">>}, timeout : {1}]

SchedulerCatalogs ==
    UNION {{f \in [S -> UNION {ServiceRecords(n) : n \in S}] :
               \A n \in S : f[n] \in ServiceRecords(n)} :
           S \in SUBSET ServiceNames \ {{}}}

SchedulerFileTypes == {FileType(sha) : sha \in Files}

\* the loop of expand_categories comes to its end
expand_terminates(all_services, services) ==
    expand_loop(categories(all_services), services, {}, {}, ExpandFuel).done

\* both expand_categories calls of build_schedule return
scheduler_returns(all_services, selected_param, excluded_param) ==
    /\ expand_terminates(all_services, excluded_param)
    /\ selected_param = <<>> \/ expand_terminates(all_services, selected_param)

\* a call that has not returned
Expanding(call, all_services) ==
    [pc |-> "expanding", call |-> call, services |-> all_services]

\* Scheduler.build_schedule(submission, file_type) under a catalog
scheduler_build(w, all_services, file_type) ==
    /\ \A v \in Workers : worker[v] = Idle
    /\ worker' = [worker EXCEPT ![w] =
           IF scheduler_returns(all_services, params.selected, params.excluded)
           THEN [pc |-> "built", services |-> all_services, file_type |-> file_type,
                 schedule |-> scheduler_build_schedule(all_services, params.selected,
                                                       params.excluded, file_type)]
           ELSE Expanding("build_schedule", all_services)]
    /\ UNCHANGED <<params, active_tasks, watch, schedules, dispatched, finished, files,
                   results, file_queue, submission_queue, service_queue, submission,
                   completed_queue, filescore, files_complete, last>>

\* Scheduler.expand_categories(submission.params.services.selected)
scheduler_expand(w, all_services) ==
    /\ \A v \in Workers : worker[v] = Idle
    /\ \E r \in {expand_loop(categories(all_services), params.selected, {}, {},
                             ExpandFuel)} :
           worker' = [worker EXCEPT ![w] =
               IF r.done
               THEN [pc |-> "expanded", services |-> all_services,
                     found |-> r.found, expanded |-> r.expanded]
               ELSE Expanding("expand_categories", all_services)]
    /\ UNCHANGED <<params, active_tasks, watch, schedules, dispatched, finished, files,
                   results, file_queue, submission_queue, service_queue, submission,
                   completed_queue, filescore, files_complete, last>>

\* the caller goes on with the value returned
scheduler_return(w) ==
    /\ worker[w].pc \in {"built", "expanded"}
    /\ worker' = [worker EXCEPT ![w] = Idle]
    /\ UNCHANGED <<params, active_tasks, watch, schedules, dispatched, finished, files,
                   results, file_queue, submission_queue, service_queue, submission,
                   completed_queue, filescore, files_complete, last>>

InitScheduler ==
    /\ InitCommon
    /\ params \in [ignore_filtering : {FALSE}, max_extracted : {0},
                   selected : NameLists, excluded : NameLists, files : {<<"A">>}]
    /\ submission_queue = One("task")

NextScheduler ==
    \/ \E w \in Workers : \E all_services \in SchedulerCatalogs :
           \E file_type \in SchedulerFileTypes :
               scheduler_build(w, all_services, file_type)
    \/ \E w \in Workers : \E all_services \in SchedulerCatalogs :
           scheduler_expand(w, all_services)
    \/ \E w \in Workers : scheduler_return(w)

SpecScheduler == InitScheduler /\ [][NextScheduler]_vars

----------------------------------------------------------------------------
(* Steps and notions the properties speak of                               *)

\* this step is a dispatch_file call for sha: only dispatch_file takes a
\* FileTask off the file queue
FileStep(sha) ==
    \E task \in FileTasks :
        /\ task.sha = sha
        /\ BagIn(task, file_queue)
        /\ file_queue' = file_queue (-) One(task)

\* this step is a dispatch_submission call
SubmissionStep ==
    /\ last'.op = "dispatch_submission"
    /\ \E m \in {"task", "sid"} :
           /\ m = "task" \/ Sid \in active_tasks
           /\ CopiesIn(m, submission_queue') < CopiesIn(m, submission_queue)

\* this step pushes a ServiceTask for k = (sha, svc)
ServicePushed(k) == CopiesIn(k, service_queue') > CopiesIn(k, service_queue)

\* this step pushes FileTask task
FilePushed(task) == CopiesIn(task, file_queue') > CopiesIn(task, file_queue)

\* this step runs the finalizer to its end
Finalized == completed_queue' = completed_queue + 1

HasRecord(k) == k \in DOMAIN finished

\* a non-error finish record with drop = true
DropRecord(k) == HasRecord(k) /\ finished[k].bucket # "error" /\ finished[k].drop

\* the stages of sched that come before the stage holding svc
StagesBefore(sched, svc) ==
    {i \in DOMAIN sched : \E j \in DOMAIN sched : i < j /\ svc \in Range(sched[j])}

\* the services of the stages of sched before the stage holding svc
ServicesBefore(sched, svc) ==
    UNION {Range(sched[i]) : i \in StagesBefore(sched, svc)}

\* the schedule of a file: the cached one, or the one the scheduler builds
ScheduleOf(sha) == build_schedule(schedules, sha, FileType(sha)).schedule

ScheduledServices(sha) == UNION {Range(ScheduleOf(sha)[i]) : i \in DOMAIN ScheduleOf(sha)}

----------------------------------------------------------------------------
(* C1. Stage ordering: a dispatch_file call pushes a ServiceTask for a     *)
(* service of stage N of the file's schedule only if every service of      *)
(* every earlier stage of that schedule has a finish record.               *)
StageOrdering ==
    [][\A k \in Keys :
          ServicePushed(k) =>
              \A s \in ServicesBefore(schedules'[k[1]], k[2]) : HasRecord(<<k[1], s>>)]_vars

\* a second-stage ServiceTask waits while the first stage has its record
StageOrderingWitness ==
    /\ BagIn(<<"A", "av">>, service_queue)
    /\ HasRecord(<<"A", "ext">>)
    /\ "ext" \in ServicesBefore(schedules["A"], "av")

(* C2. Filtering short-circuit: with ignore_filtering = false, once a      *)
(* service of stage N of a file's schedule has a non-error finish record   *)
(* with drop = true, no later dispatch_file call pushes a ServiceTask for  *)
(* a service of a later stage of that file: no push happens while the      *)
(* record is there, the record stays until the submission is finalized,    *)
(* and nothing is pushed once the submission is finalized.                 *)
FilteringShortCircuit ==
    [][~params.ignore_filtering =>
          /\ \A k \in Keys :
                 ServicePushed(k) =>
                     \A s \in ServicesBefore(schedules'[k[1]], k[2]) :
                         ~DropRecord(<<k[1], s>>)
          /\ \A k \in Keys : DropRecord(k) => (DropRecord(k)' \/ Finalized)
          /\ completed_queue > 0 => \A k \in Keys : ~ServicePushed(k)]_vars

\* the file was completed by the short-circuit: the later stage never ran
FilteringShortCircuitWitness ==
    /\ ~params.ignore_filtering
    /\ DropRecord(<<"A", "ext">>)
    /\ files_complete["A"] > 0
    /\ <<"A", "av">> \notin DOMAIN dispatched
    /\ "ext" \in ServicesBefore(schedules["A"], "av")

(* C3. dispatch_submission classifies a file as pending only if some       *)
(* service of its schedule has no finish record; if every scheduled        *)
(* service of every encountered file has a finish record, it pushes no     *)
(* FileTask and runs the finalizer, however recently the services were     *)
(* dispatched.                                                             *)

\* the files the walk can encounter: the roots, and the files extracted by
\* the results of encountered files
RECURSIVE Encountered(_)
Encountered(S) ==
    LET T == S \cup UNION {Range(results[k].extracted) :
                              k \in {x \in DOMAIN results : x[1] \in S /\ HasRecord(x)
                                                            /\ finished[x].bucket # "error"}}
    IN  IF T = S THEN S ELSE Encountered(T)

AllScheduledFinished ==
    \A sha \in Encountered(Range(SubmissionFiles)) :
        \A svc \in ScheduledServices(sha) : HasRecord(<<sha, svc>>)

PendingOnlyIfUnfinished ==
    [][SubmissionStep =>
          /\ \A task \in FileTasks :
                 FilePushed(task) =>
                     \E svc \in ScheduledServices(task.sha) : ~HasRecord(<<task.sha, svc>>)
          /\ AllScheduledFinished => (file_queue' = file_queue /\ Finalized)]_vars

(* C4. Liveness: with fair dispatcher workers, watchdog re-delivery of     *)
(* {sid}, and every pushed ServiceTask yielding a finish record, a         *)
(* submission dispatch_submission has started tracking is eventually       *)
(* finalized: saved with state "completed" and no longer tracked.          *)
Tracked == Sid \in active_tasks

Completed == Sid \notin active_tasks /\ submission.state = "completed"

SubmissionLiveness == Tracked ~> Completed

(* C5. Of two consecutive dispatch_file calls for the same file made       *)
(* within a service's timeout, with no finish record written in between,   *)
(* the second pushes nothing for a service the first pushed a ServiceTask  *)
(* for.                                                                    *)
NoRepushWithinTimeout ==
    [][\A svc \in last.pushed :
          (FileStep(last.sha) /\ last.elapsed < timeout(svc)) =>
              ~ServicePushed(<<last.sha, svc>>)]_vars

\* dispatch_file ran again for the file inside the window of a service the
\* earlier call pushed, and that service has still not finished
NoRepushWithinTimeoutWitness ==
    /\ last.op = "dispatch_file"
    /\ last.again
    /\ \E svc \in last.pushed :
           /\ last.elapsed < timeout(svc)
           /\ ~HasRecord(<<last.sha, svc>>)

(* C6. With two workers running dispatch_file for the same file, a       *)
(* service that has no finish record gets at most one ServiceTask per      *)
(* dispatch window: a ServiceTask is pushed for it only if at least its    *)
(* timeout has passed since the last ServiceTask was pushed for it.        *)
OncePerWindow ==
    [][\A svc \in last.pushed :
          (ServicePushed(<<last.sha, svc>>) /\ ~HasRecord(<<last.sha, svc>>))
              => last.elapsed >= timeout(svc)]_vars

(* C7. Timeout re-dispatch: when dispatch_file runs for a file of a        *)
(* tracked submission, a service of the file's current stage (every        *)
(* earlier stage finished, none of them dropping the file) that has no     *)
(* finish record and whose dispatch window has elapsed, or that was never  *)
(* dispatched, gets a new ServiceTask and its dispatch time is set to now. *)
CurrentStage(k) ==
    /\ k[2] \in ScheduledServices(k[1])
    /\ \A s \in ServicesBefore(ScheduleOf(k[1]), k[2]) :
           /\ HasRecord(<<k[1], s>>)
           /\ params.ignore_filtering \/ ~DropRecord(<<k[1], s>>)

TimeoutRedispatch ==
    [][\A k \in Keys :
          (/\ FileStep(k[1])
           /\ Sid \in active_tasks
           /\ CurrentStage(k)
           /\ ~HasRecord(k)
           /\ runtime(dispatched, k) >= timeout(k[2]))
          => (/\ ServicePushed(k)
              /\ k \in DOMAIN dispatched'
              /\ dispatched'[k] = 0)]_vars

\* a service dispatched before was dispatched again: its ServiceTask waits
\* and its dispatch time is the time of the call
TimeoutRedispatchWitness ==
    /\ last.op = "dispatch_file"
    /\ last.renewed
    /\ \E svc \in last.pushed :
           /\ BagIn(<<last.sha, svc>>, service_queue)
           /\ dispatched[<<last.sha, svc>>] = 0

(* C8. dispatch_submission run twice in a row, with no finish record        *)
(* written and no dispatch_file run in between, is the same as one run:    *)
(* the second run leaves the file queue, the completed queue,              *)
(* active_tasks, the Dispatch State and the saved submission as the first  *)
(* run left them.                                                          *)
TwiceIsOnce ==
    [][(SubmissionStep /\ last.op = "dispatch_submission") =>
          UNCHANGED <<file_queue, completed_queue, active_tasks, schedules,
                      dispatched, finished, files, submission>>]_vars

(* C9. Once finalize_submission has completed, the submission is no       *)
(* longer in active_tasks and the Dispatch State holds nothing for it (no  *)
(* cached schedule, no dispatch timestamp, no admitted file), in every     *)
(* later state, whatever dispatch_file calls are under way.                *)
StaysFinalized ==
    completed_queue > 0 =>
        /\ Sid \notin active_tasks
        /\ schedules = NoSchedules
        /\ dispatched = Empty
        /\ files = {}

(* C10. Admission quota: the set of admitted files only grows until the    *)
(* submission is finalized, it never holds more than max_files files, and  *)
(* dispatch_submission pushes a FileTask only for a file add_file admitted *)
(* (or had admitted before) in that pass.                                  *)
AdmissionQuota ==
    [][/\ Cardinality(files') <= max_files
       /\ files \subseteq files' \/ Finalized
       /\ \A task \in FileTasks :
              (SubmissionStep /\ FilePushed(task)) => task.sha \in files']_vars

\* the budget binds: a pass met the extracted file, which has no finish
\* record, and left it out; only the root is admitted
AdmissionQuotaWitness ==
    /\ last.op = "dispatch_submission"
    /\ <<"A", "ext">> \in DOMAIN results
    /\ "B" \in Range(results[<<"A", "ext">>].extracted)
    /\ ~\E svc \in ServiceNames : HasRecord(<<"B", svc>>)
    /\ files = {"A"}
    /\ Cardinality(files) = max_files

----------------------------------------------------------------------------
(* Extraction paths                                                        *)

\* the files some result record of a file of S lists as extracted
Children(res, S) ==
    {c \in Files : \E k \in DOMAIN res : k[1] \in S /\ c \in Range(res[k].extracted)}

\* within[n + 1]: the files at most n extractions away from a root file
RECURSIVE Within(_, _, _)
Within(res, within, n) ==
    IF n = 0 THEN within
    ELSE Within(res, Append(within, within[Len(within)] \cup
                                        Children(res, within[Len(within)])), n - 1)

\* the length given to a file no extraction path reaches
NoPath == Cardinality(Files)

\* the length of the shortest extraction path from any root file to each file
shortest_path(res, sha) ==
    LET within == Within(res, <<Range(SubmissionFiles)>>, NoPath - 1)
    IN  MinOf({n \in 0..NoPath : n < NoPath => sha \in within[n + 1]})

(* C11. Depth limit: a FileTask pushed for a file that is not a root       *)
(* carries a depth of at most max_extraction_depth - 1 and the file's      *)
(* shortest extraction path from a root is at most that long; a file whose *)
(* shortest path is max_extraction_depth or longer is neither admitted nor *)
(* pushed to the file queue.  Stated of every step that changes the       *)
(* admitted files, the file queue or the result records.                   *)
DepthLimit ==
    [][\/ files' = files /\ file_queue' = file_queue /\ results' = results
       \/ /\ \A task \in FileTasks :
                 (FilePushed(task) /\ task.sha \notin Range(SubmissionFiles)) =>
                     /\ task.depth <= max_extraction_depth - 1
                     /\ shortest_path(results', task.sha) <= max_extraction_depth - 1
          /\ \A sha \in Files :
                 shortest_path(results', sha) >= max_extraction_depth =>
                     /\ sha \notin files'
                     /\ \A task \in FileTasks : task.sha = sha => ~FilePushed(task)]_vars

\* A holds C, C holds D: the submission is finalized with D met by the walk
\* (three files encountered) and never analysed
DepthLimitWitness ==
    /\ submission.state = "completed"
    /\ submission.file_count = 3
    /\ SubmissionFiles = <<"A">>
    /\ <<"A", "ext">> \in DOMAIN results /\ results[<<"A", "ext">>].extracted = <<"C">>
    /\ <<"C", "ext">> \in DOMAIN results /\ results[<<"C", "ext">>].extracted = <<"D">>
    /\ shortest_path(results, "D") = max_extraction_depth
    /\ \A svc \in ServiceNames : <<"D", svc>> \notin DOMAIN results

(* C12. File count: the file_count the finalizer writes to the submission  *)
(* is the number of files admitted to the submission; extracted files the  *)
(* extraction budget or the depth limit dropped are not counted.           *)
FileCountIsAdmitted ==
    [][Finalized => submission'.file_count = Cardinality(files)]_vars

----------------------------------------------------------------------------
(* Errors and scores                                                       *)

\* the keys of the finish records with bucket = error
ErrorKeys(fin) == {k \in DOMAIN fin : fin[k].bucket = "error"}

\* the sum of the scores of the finish records fin holds under the keys ks
RECURSIVE ScoreSum(_, _)
ScoreSum(fin, ks) ==
    IF ks = {} THEN 0
    ELSE LET k == CHOOSE x \in ks : TRUE IN fin[k].score + ScoreSum(fin, ks \ {k})

\* this step is a dispatch_file call that finds the file complete
FileCompleted(sha) == FileStep(sha) /\ files_complete'[sha] = files_complete[sha] + 1

\* the highest score among the result records under the keys ks, 0 for none
MaxResultScore(ks) ==
    IF ks = {} THEN 0
    ELSE CHOOSE m \in {results[k].score : k \in ks} :
             \A k \in ks : results[k].score <= m

UntrackedUnchanged ==
    [][\A sha \in Files :
          (FileStep(sha) /\ Sid \notin active_tasks) =>
              UNCHANGED <<active_tasks, watch, schedules, dispatched, finished, files,
                          results, submission_queue, service_queue, submission,
                          completed_queue, filescore, files_complete>>]_vars

\* the submission is finalized and a FileTask left on the file queue has
\* since been handled
UntrackedUnchangedWitness ==
    /\ last.op = "dispatch_file"
    /\ Sid \notin active_tasks
    /\ submission.state = "completed"
    /\ ~watch
    /\ schedules = NoSchedules

(* C16. Maximum score: when the result record of every finish record      *)
(* that is not an error is in the store, the max_score the finalizer       *)
(* writes is the highest score among the result records listed in the      *)
(* submission's results, and 0 when there are none.                        *)
MaxScoreIsMax ==
    [][(Finalized /\ \A k \in DOMAIN finished \ ErrorKeys(finished) : k \in DOMAIN results)
          => submission'.max_score = MaxResultScore(submission'.results)]_vars

\* both services of A gave a result, the first the higher score, and both
\* records are in the store at finalization
MaxScoreIsMaxWitness ==
    /\ submission.state = "completed"
    /\ submission.results = {<<"A", "ext">>, <<"A", "av">>}
    /\ submission.results \subseteq DOMAIN results
    /\ results[<<"A", "ext">>].score = MaxScore
    /\ results[<<"A", "av">>].score = 0
    /\ submission.max_score = MaxScore

\* the walk of dispatch_file reaches stage i of the file's schedule and
\* meets a drop record there
DropObserved(sha, i) ==
    /\ \A j \in 1..(i - 1) : \A svc \in Range(ScheduleOf(sha)[j]) :
           HasRecord(<<sha, svc>>) /\ ~DropRecord(<<sha, svc>>)
    /\ \E svc \in Range(ScheduleOf(sha)[i]) : DropRecord(<<sha, svc>>)

(* C17. Drop rewrites the cache: when a dispatch_file call for a tracked   *)
(* submission with ignore_filtering = false meets, in a stage it walks, a  *)
(* finish record that is not an error and has drop = true, and the         *)
(* schedule has later stages, the schedule cached for the file after the   *)
(* call is exactly the stages the walk started.                            *)
DropTruncatesCache ==
    [][\A sha \in Files : \A i \in DOMAIN ScheduleOf(sha) :
          (/\ FileStep(sha)
           /\ Sid \in active_tasks
           /\ ~params.ignore_filtering
           /\ DropObserved(sha, i)
           /\ i < Len(ScheduleOf(sha)))
              => schedules'[sha] = SubSeq(ScheduleOf(sha), 1, i)]_vars

\* this step pushes {sid} onto the submission queue
SidPushed == CopiesIn("sid", submission_queue') > CopiesIn("sid", submission_queue)

\* no service of the file is left to run: every scheduled service has a
\* finish record, or a drop record ends the schedule at a stage whose
\* services all have one
FileDone(sha) ==
    \/ \A svc \in ScheduledServices(sha) : HasRecord(<<sha, svc>>)
    \/ /\ ~params.ignore_filtering
       /\ \E i \in DOMAIN ScheduleOf(sha) :
              /\ DropObserved(sha, i)
              /\ \A svc \in Range(ScheduleOf(sha)[i]) : HasRecord(<<sha, svc>>)

(* C18. Completion signal: a dispatch_file call for a tracked submission   *)
(* pushes {sid} onto the submission queue exactly when it finds no         *)
(* outstanding service for its file and all_finished() holds; the call     *)
(* that completes the last unfinished file, also when a drop record cut    *)
(* the file's schedule short, pushes {sid}; a call that pushes a           *)
(* ServiceTask pushes no {sid}.                                            *)
CompletionSignal ==
    [][\A sha \in Files :
          (FileStep(sha) /\ Sid \in active_tasks) =>
              /\ SidPushed <=>
                     (FileCompleted(sha) /\ all_finished(files, schedules', finished))
              /\ (FileCompleted(sha) /\ \A f \in files : FileDone(f)) => SidPushed
              /\ (\E k \in Keys : ServicePushed(k)) => ~SidPushed]_vars

(* C19. Depth is the shortest path: the depth dispatch_submission gives a  *)
(* FileTask it pushes is the length of the shortest extraction path from   *)
(* any root file to that file; every root file has depth 0, also when      *)
(* another file's result lists it as extracted.                            *)
DepthIsShortestPath ==
    [][\A task \in FileTasks :
          (SubmissionStep /\ FilePushed(task)) =>
              /\ task.depth = shortest_path(results, task.sha)
              /\ task.sha \in Range(SubmissionFiles) => task.depth = 0]_vars

(* C20. Termination of dispatch_submission: for every extraction graph,    *)
(* cycles included, the walk and the depth computation come to an end and  *)
(* the call completes: it pushes the FileTasks of the pending files or     *)
(* runs the finalizer.                                                     *)
SubmissionPassCompletes ==
    [][SubmissionStep => ((\E task \in FileTasks : FilePushed(task)) \/ Finalized)]_vars

(* C21. One schedule for all workers: a worker that has called             *)
(* build_schedule for a file proceeds with the schedule stored for that    *)
(* file in the Dispatch State, also when two workers found no cached       *)
(* schedule, built theirs from different service catalogs, and one of      *)
(* them lost the conditional write.                                        *)
SameSchedule ==
    \A w \in Workers :
        worker[w].pc = "returned" =>
            worker[w].cached_schedule = schedules[worker[w].file_hash]

(* C22. Finalized at most once: however the workers interleave and        *)
(* however often {sid} is delivered, the finalizer saves the submission    *)
(* as completed and pushes it to the completed queue at most once.         *)
FinalizedOnce == completed_queue <= 1

(* C23. File completion recorded once: over all dispatch_submission and    *)
(* dispatch_file calls for the submission, the files_complete counter is   *)
(* incremented (and the FileScore entry written) at most once for each     *)
(* file, also when a FileTask for a file already complete is delivered     *)
(* again.                                                                  *)
CompletedOnce == \A sha \in Files : files_complete[sha] <= 1

\* name n of the catalog is listed in names, itself or through its category
Listed(all_services, names, n) ==
    \/ n \in Range(names)
    \/ all_services[n].category \in Range(names)

\* the conditions under which service n of the catalog runs on file_type
Scheduled(all_services, selected_param, excluded_param, file_type, n) ==
    /\ n \in DOMAIN all_services
    /\ \/ all_services[n].category = system_category
       \/ /\ selected_param = <<>> \/ Listed(all_services, selected_param, n)
          /\ ~Listed(all_services, excluded_param, n)
    /\ \/ all_services[n].accepts = <<>>
       \/ re_match(all_services[n].accepts, file_type)
    /\ \/ all_services[n].rejects = <<>>
       \/ ~re_match(all_services[n].rejects, file_type)

(* C24. The schedule of Scheduler.build_schedule: for every catalog,       *)
(* submission parameters and file type the call returns a schedule in      *)
(* which a service appears exactly when it is in the catalog, is of the    *)
(* system category or selected (an empty selection meaning every service)  *)
(* and not excluded, accepts the file type and does not reject it; a       *)
(* system service stays in also when excluded; and it appears in the one   *)
(* stage at the index of its declared stage, and in no other.              *)
ScheduleCharacterised ==
    \A w \in Workers :
        /\ worker[w].pc = "expanding" => worker[w].call # "build_schedule"
        /\ worker[w].pc = "built" =>
               \A n \in ServiceNames : \A i \in DOMAIN Stages :
                   n \in worker[w].schedule[i]
                       <=> /\ Scheduled(worker[w].services, params.selected,
                                        params.excluded, worker[w].file_type, n)
                           /\ Stages[i] = worker[w].services[n].stage

\* the names a list stands for: the members of the categories it lists and
\* the names it lists that are no category
Expansion(all_services, names) ==
    {n \in DOMAIN all_services : all_services[n].category \in Range(names)}
        \cup {n \in Range(names) : n \notin DOMAIN categories(all_services)}

(* C25. expand_categories comes to an end for every list and catalog, a    *)
(* catalog with a service named like a category and a list naming one      *)
(* category twice among them; it expands each category at most once and    *)
(* returns exactly the members of the listed categories and the listed     *)
(* plain service names.                                                    *)
ExpandTerminates ==
    \A w \in Workers :
        /\ worker[w].pc = "expanding" => worker[w].call # "expand_categories"
        /\ worker[w].pc = "expanded" =>
               /\ \A i, j \in DOMAIN worker[w].expanded :
                      worker[w].expanded[i] = worker[w].expanded[j] => i = j
               /\ worker[w].found = Expansion(worker[w].services, params.selected)

====
